---------------------------- MODULE Spec2Model ----------------------------
(***************************************************************************)
(* State-machine model of src/webserver/webserver.go: the REST server over *)
(* the in-memory "articles" list and the device/temp/time/mode globals.    *)
(*                                                                         *)
(* Go strings are sequences of one-character strings, so that the          *)
(* conversions of the code (Sprintf, ToLower, the slug pattern) are        *)
(* computed and not assumed.  []*Article is a sequence of addresses into   *)
(* `heap'.  One action is one whole request: middleware, handler, db call  *)
(* and rendered response.                                                  *)
(***************************************************************************)
EXTENDS Integers, Sequences, FiniteSets, TLC

(***************************************************************************)
(* Bounds of the model.                                                    *)
(***************************************************************************)
\* The list never grows beyond MaxArticles entries (POST is not taken then).
MaxArticles == 7

\* At most MaxInflight requests are served at the same time.
MaxInflight == 2

(***************************************************************************)
(* Strings.                                                                *)
(***************************************************************************)
Upper == <<"A","B","C","D","E","F","G","H","I","J","K","L","M",
           "N","O","P","Q","R","S","T","U","V","W","X","Y","Z">>
Lower == <<"a","b","c","d","e","f","g","h","i","j","k","l","m",
           "n","o","p","q","r","s","t","u","v","w","x","y","z">>
Digits == <<"0","1","2","3","4","5","6","7","8","9">>

\* unicode.ToLower on one character (ASCII letters).
ToLowerChar(c) ==
    IF \E i \in 1..Len(Upper) : Upper[i] = c
    THEN Lower[CHOOSE i \in 1..Len(Upper) : Upper[i] = c]
    ELSE c

\* strings.ToLower
ToLower(s) == [i \in 1..Len(s) |-> ToLowerChar(s[i])]

\* The route pattern {articleSlug:[a-z-]+}: chi anchors it to the segment.
MatchSlug(s) ==
    /\ Len(s) > 0
    /\ \A i \in 1..Len(s) :
          \/ s[i] = "-"
          \/ \E j \in 1..Len(Lower) : Lower[j] = s[i]

\* fmt.Sprintf("%d", n) for n >= 0.
RECURSIVE Itoa(_)
Itoa(n) ==
    IF n < 10 THEN <<Digits[n + 1]>>
    ELSE Itoa(n \div 10) \o <<Digits[(n % 10) + 1]>>

\* fmt.Sprintf("%d", n)
SprintfD(n) == IF n < 0 THEN <<"-">> \o Itoa(-n) ELSE Itoa(n)


(***************************************************************************)
(* Request bodies.  A body is what encoding/json sees: whether the text is *)
(* one syntactically valid JSON object of a decodable content type, and,   *)
(* for every key the structs of the program name, the value it carries.    *)
(***************************************************************************)
JsonKeys == {"id", "user_id", "title", "slug", "day", "night",
             "currenttemp", "nighttemp", "daytemp", "thereshold",
             "mode", "heating", "heting"}

Absent == [t |-> "absent", s |-> <<>>, n |-> 0]
Str(s) == [t |-> "string", s |-> s, n |-> 0]
Num(n) == [t |-> "number", s |-> <<>>, n |-> n]

\* The JSON object with the members of the record `members'.
Obj(members) ==
    [k \in JsonKeys |-> IF k \in DOMAIN members THEN members[k] ELSE Absent]

Json(members) == [syntax |-> TRUE, obj |-> Obj(members)]
\* A body json.Decoder rejects before it stores anything (a syntax error),
\* or a content type render.Decode does not decode.
BadJson == [syntax |-> FALSE, obj |-> [k \in JsonKeys |-> Absent]]
\* A request without a body (GET, DELETE).
NoBody == BadJson

\* encoding/json storing member k into a string field holding cur: a string
\* is stored, a missing member leaves the field, a number is a type error
\* that leaves the field and lets the decoding go on.
DecodeString(obj, k, cur) == IF obj[k].t = "string" THEN obj[k].s ELSE cur
\* The same for an int64 field.
DecodeInt(obj, k, cur) == IF obj[k].t = "number" THEN obj[k].n ELSE cur

\* json.Decoder.Decode's error for a struct with string fields tagged strs
\* and integer fields tagged ints.
DecodeError(body, strs, ints) ==
    \/ ~body.syntax
    \/ \E k \in strs : body.obj[k].t = "number"
    \/ \E k \in ints : body.obj[k].t = "string"

(***************************************************************************)
(* Data model and fixtures.                                                *)
(***************************************************************************)
\* type User struct
users == << [ID |-> 100, Name |-> <<"P","e","t","e","r">>],
            [ID |-> 200, Name |-> <<"J","u","l","i","a">>] >>

\* dbGetUser: the first user with the id, or "user not found".
dbGetUser(id) ==
    IF \E i \in 1..Len(users) : users[i].ID = id
    THEN [err |-> FALSE,
          user |-> users[CHOOSE i \in 1..Len(users) :
                            /\ users[i].ID = id
                            /\ \A j \in 1..(i-1) : users[j].ID # id]]
    ELSE [err |-> TRUE, user |-> [ID |-> 0, Name |-> <<>>]]

\* type Article struct, and its zero value (what &Article{} points to).
ZeroArticle == [ID |-> <<>>, UserID |-> 0, Title |-> <<>>, Slug |-> <<>>]

\* var articles = []*Article{...}: the objects of the fixture, in order.
Fixture ==
    << [ID |-> <<"1">>, UserID |-> 100, Title |-> <<"H","i">>,
        Slug |-> <<"h","i">>],
       [ID |-> <<"2">>, UserID |-> 200, Title |-> <<"s","u","p">>,
        Slug |-> <<"s","u","p">>],
       [ID |-> <<"3">>, UserID |-> 300, Title |-> <<"a","l","o">>,
        Slug |-> <<"a","l","o">>],
       [ID |-> <<"4">>, UserID |-> 400,
        Title |-> <<"b","o","n","j","o","u","r">>,
        Slug |-> <<"b","o","n","j","o","u","r">>],
       [ID |-> <<"5">>, UserID |-> 500,
        Title |-> <<"w","h","a","t","s"," ","u","p">>,
        Slug |-> <<"w","h","a","t","s","-","u","p">>] >>

\* Addresses of Article objects; 0 is the nil pointer.
Addr == 1..MaxArticles
Nil == 0


(***************************************************************************)
(* State.                                                                  *)
(***************************************************************************)
VARIABLES
    articles,       \* var articles []*Article: addresses, in list order
    heap,           \* the Article object at each address
    IP, SSID, PassPhrase, CurrentTime,
    CurrentTemp, NightTemp, DayTemp, Thereshold,
    Day, Night,
    CurrentStateOfMode, CurrentStateOfHeating,
    Mode, Heating,  \* [2]string, indexed 1..2 here for Go's 0..1
    req,            \* the request served last
    resp,           \* the response rendered for it
    inflight        \* the requests being served concurrently, one record
                    \* per goroutine: where it is in its handler, its
                    \* locals, its response

articleVars == <<articles, heap>>
deviceVars == <<IP, SSID, PassPhrase, CurrentTime>>
tempVars == <<CurrentTemp, NightTemp, DayTemp, Thereshold>>
timeVars == <<Day, Night>>
modeVars == <<CurrentStateOfMode, CurrentStateOfHeating, Mode, Heating>>
vars == <<articles, heap, IP, SSID, PassPhrase, CurrentTime,
          CurrentTemp, NightTemp, DayTemp, Thereshold, Day, Night,
          CurrentStateOfMode, CurrentStateOfHeating, Mode, Heating,
          req, resp, inflight>>

Range(f) == {f[i] : i \in DOMAIN f}

\* The articles of list l, dereferenced in heap h.
Deref(h, l) == [i \in 1..Len(l) |-> h[l[i]]]

\* A fresh address for new(Article): the least one the list does not hold.
NewAddr(l) == CHOOSE p \in Addr :
                 /\ p \notin Range(l)
                 /\ \A q \in Addr : q < p => q \in Range(l)

\* Garbage collection: an object no list entry points to is gone.
Collect(h, l) == [p \in Addr |-> IF p \in Range(l) THEN h[p] ELSE ZeroArticle]

(***************************************************************************)
(* Persistence mocks.                                                      *)
(***************************************************************************)
\* rand.Intn(100)+10
IntnN == 100
IDBase == 10

\* A faulty variant of the lookup by id: the loop keeps the last match.
FirstByID_Last(h, l, id) ==
    IF \E i \in 1..Len(l) : h[l[i]].ID = id
    THEN CHOOSE i \in 1..Len(l) :
            /\ h[l[i]].ID = id
            /\ \A j \in (i+1)..Len(l) : h[l[j]].ID # id
    ELSE 0

\* The index the loop `for i, a := range l { if a.ID == id' stops at, or 0.
FirstByID(h, l, id) ==
    IF \E i \in 1..Len(l) : h[l[i]].ID = id
    THEN CHOOSE i \in 1..Len(l) :
            /\ h[l[i]].ID = id
            /\ \A j \in 1..(i-1) : h[l[j]].ID # id
    ELSE 0

\* A faulty variant of the lookup by slug: the loop keeps the last match.
FirstBySlug_Last(h, l, slug) ==
    IF \E i \in 1..Len(l) : h[l[i]].Slug = slug
    THEN CHOOSE i \in 1..Len(l) :
            /\ h[l[i]].Slug = slug
            /\ \A j \in (i+1)..Len(l) : h[l[j]].Slug # slug
    ELSE 0

\* The same for `if a.Slug == slug'.
FirstBySlug(h, l, slug) ==
    IF \E i \in 1..Len(l) : h[l[i]].Slug = slug
    THEN CHOOSE i \in 1..Len(l) :
            /\ h[l[i]].Slug = slug
            /\ \A j \in 1..(i-1) : h[l[j]].Slug # slug
    ELSE 0

\* A faulty variant of dbNewArticle: the article is put in front of the list.
dbNewArticle_Prepend(h, l, p, n) ==
    [heap |-> [h EXCEPT ![p].ID = SprintfD(n + IDBase)],
     articles |-> <<p>> \o l]

\* A variant of dbNewArticle that checks the generated id: the article
\* gets it but is not stored when an article with that id exists.
dbNewArticle_Unique(h, l, p, n) ==
    [heap |-> [h EXCEPT ![p].ID = SprintfD(n + IDBase)],
     articles |-> IF FirstByID(h, l, SprintfD(n + IDBase)) = 0
                  THEN Append(l, p) ELSE l]

\* dbNewArticle(article) with rand.Intn(100) = n: the object at p gets the
\* generated id and p is appended.
dbNewArticle(h, l, p, n) ==
    [heap |-> [h EXCEPT ![p].ID = SprintfD(n + IDBase)],
     articles |-> Append(l, p)]

\* dbGetArticle(id)
dbGetArticle(h, l, id) ==
    LET i == FirstByID(h, l, id)
    IN  IF i # 0 THEN [err |-> FALSE, article |-> l[i]]
        ELSE [err |-> TRUE, article |-> Nil]

\* dbGetArticleBySlug(slug)
dbGetArticleBySlug(h, l, slug) ==
    LET i == FirstBySlug(h, l, slug)
    IN  IF i # 0 THEN [err |-> FALSE, article |-> l[i]]
        ELSE [err |-> TRUE, article |-> Nil]

\* dbUpdateArticle(id, article): articles[i] = article at the first match.
dbUpdateArticle(h, l, id, p) ==
    LET i == FirstByID(h, l, id)
    IN  IF i # 0 THEN [err |-> FALSE, articles |-> [l EXCEPT ![i] = p]]
        ELSE [err |-> TRUE, articles |-> l]

\* A faulty variant of dbRemoveArticle: the slice drops its last entry
\* instead of the match.
dbRemoveArticle_DropLast(h, l, id) ==
    LET i == FirstByID(h, l, id)
    IN  IF i # 0
        THEN [err |-> FALSE, article |-> l[i],
              articles |-> SubSeq(l, 1, Len(l) - 1)]
        ELSE [err |-> TRUE, article |-> Nil, articles |-> l]

\* dbRemoveArticle(id): append(articles[:i], articles[i+1:]...) at the
\* first match, which is returned.
dbRemoveArticle(h, l, id) ==
    LET i == FirstByID(h, l, id)
    IN  IF i # 0
        THEN [err |-> FALSE, article |-> l[i],
              articles |-> SubSeq(l, 1, i-1) \o SubSeq(l, i+1, Len(l))]
        ELSE [err |-> TRUE, article |-> Nil, articles |-> l]


(***************************************************************************)
(* Routing, requests and rendered responses.                               *)
(***************************************************************************)
\* The literal routes under /rest/v1: /device, /time, /temp, /mode.
StaticSegs == { <<"d","e","v","i","c","e">>, <<"t","i","m","e">>,
                <<"t","e","m","p">>, <<"m","o","d","e">> }

\* The route chi picks for METHOD /rest/v1/<seg>, seg not empty: a literal
\* node first, then the pattern node {articleSlug:[a-z-]+} where it has a
\* handler for the method (GET only), then the parameter node {articleID}.
Route(method, seg) ==
    IF seg \in StaticSegs THEN "static"
    ELSE IF method = "GET" /\ MatchSlug(seg) THEN "/rest/v1/{articleSlug}"
    ELSE IF method \in {"GET", "PUT", "DELETE"} THEN "/rest/v1/{articleID}"
    ELSE "none"

\* chi.URLParam(r, key)
URLParam(route, seg, key) ==
    IF route = "/rest/v1/{articleID}" /\ key = "articleID" THEN seg
    ELSE IF route = "/rest/v1/{articleSlug}" /\ key = "articleSlug" THEN seg
    ELSE <<>>

\* No random number was drawn while the request was served.
NoRand == -1

Request(method, route, seg, body, rnd) ==
    [method |-> method, route |-> route, seg |-> seg, body |-> body,
     rnd |-> rnd]

\* A response: the status written, the function that rendered it, the JSON.
Response(status, by, payload) ==
    [status |-> status, by |-> by, payload |-> payload]

\* The response and request before any request was served.
NoRequest == Request("", "", <<>>, NoBody, NoRand)
NoResponse == Response(0, "", [StatusText |-> ""])

\* var ErrNotFound
ErrNotFound(by) ==
    Response(404, by, [StatusText |-> "Resource not found."])

\* ErrInvalidRequest(err)
ErrInvalidRequest(by) ==
    Response(400, by, [StatusText |-> "Invalid request."])

\* NewUserPayloadResponse(user), after UserPayload.Render
NewUserPayloadResponse(user) ==
    [ID |-> user.ID, Name |-> user.Name, Role |-> "collaborator"]

\* NewArticleResponse(article), after ArticleResponse.Render; User is
\* omitted (the empty sequence) when dbGetUser finds nobody.
NewArticleResponse(a) ==
    [Article |-> a,
     User |-> IF dbGetUser(a.UserID).err THEN <<>>
              ELSE <<NewUserPayloadResponse(dbGetUser(a.UserID).user)>>,
     Elapsed |-> 10]

\* NewArticleListResponse(articles)
NewArticleListResponse(h, l) ==
    [List |-> [i \in 1..Len(l) |-> NewArticleResponse(h[l[i]])]]

(***************************************************************************)
(* ArticleRequest: decoding and Bind.                                      *)
(***************************************************************************)
\* The JSON keys that reach the embedded *Article.  "id" does not: the
\* field ProtectedID `json:"id"' of the outer struct shadows Article.ID.
ArticleTags == {"user_id", "title", "slug"}

\* A faulty variant of the decoding: the member "id" is stored into the
\* embedded article's ID, as it would be without the ProtectedID field that
\* shadows it.
DecodeArticleRequest_IdIntoArticle(body, a) ==
    [err |-> DecodeError(body, {"id", "title", "slug"}, {"user_id"}),
     touched |-> body.syntax /\ \E k \in ArticleTags \cup {"id"} :
                                    body.obj[k].t # "absent",
     Article |-> IF body.syntax
                 THEN [ID |-> DecodeString(body.obj, "id", a.ID),
                       UserID |-> DecodeInt(body.obj, "user_id", a.UserID),
                       Title |-> DecodeString(body.obj, "title", a.Title),
                       Slug |-> DecodeString(body.obj, "slug", a.Slug)]
                 ELSE a,
     ProtectedID |-> <<>>]

\* A faulty variant of the decoding: the embedded article counts as
\* allocated whatever the body holds, so Bind's nil check never fires.
DecodeArticleRequest_Allocated(body, a) ==
    [err |-> DecodeError(body, {"id", "title", "slug"}, {"user_id"}),
     touched |-> TRUE,
     Article |-> IF body.syntax
                 THEN [ID |-> a.ID,
                       UserID |-> DecodeInt(body.obj, "user_id", a.UserID),
                       Title |-> DecodeString(body.obj, "title", a.Title),
                       Slug |-> DecodeString(body.obj, "slug", a.Slug)]
                 ELSE a,
     ProtectedID |-> IF body.syntax
                     THEN DecodeString(body.obj, "id", <<>>) ELSE <<>>]

\* render.Decode of body into &ArticleRequest{Article: a}: the error, the
\* embedded article as the decoder leaves it (it writes through the
\* pointer, also when a later member is a type error), whether the decoder
\* touched the embedded pointer (it allocates a nil one then), and
\* ProtectedID.
DecodeArticleRequest(body, a) ==
    [err |-> DecodeError(body, {"id", "title", "slug"}, {"user_id"}),
     touched |-> body.syntax /\ \E k \in ArticleTags : body.obj[k].t # "absent",
     Article |-> IF body.syntax
                 THEN [ID |-> a.ID,
                       UserID |-> DecodeInt(body.obj, "user_id", a.UserID),
                       Title |-> DecodeString(body.obj, "title", a.Title),
                       Slug |-> DecodeString(body.obj, "slug", a.Slug)]
                 ELSE a,
     ProtectedID |-> IF body.syntax
                     THEN DecodeString(body.obj, "id", <<>>) ELSE <<>>]

\* A faulty variant of Bind: the title is left as submitted.
ArticleRequestBind_Verbatim(a) == a

\* (a *ArticleRequest) Bind, for a.Article != nil: the article it leaves.
ArticleRequestBind(a) == [a EXCEPT !.Title = ToLower(a.Title)]

\* ArticleCtx: the article loaded for the route, or err (404).
ArticleCtx(h, l, route, seg) ==
    IF URLParam(route, seg, "articleID") # <<>>
    THEN dbGetArticle(h, l, URLParam(route, seg, "articleID"))
    ELSE IF URLParam(route, seg, "articleSlug") # <<>>
    THEN dbGetArticleBySlug(h, l, URLParam(route, seg, "articleSlug"))
    ELSE [err |-> TRUE, article |-> Nil]

(***************************************************************************)
(* Handlers of the articles resource.                                      *)
(***************************************************************************)
thermoVars == <<IP, SSID, PassPhrase, CurrentTime, CurrentTemp, NightTemp,
                DayTemp, Thereshold, Day, Night, CurrentStateOfMode,
                CurrentStateOfHeating, Mode, Heating>>

\* GET /rest/v1/
ListArticles ==
    /\ req' = Request("GET", "/rest/v1/", <<>>, NoBody, NoRand)
    /\ resp' = Response(200, "ListArticles",
                        NewArticleListResponse(heap, articles))
    /\ UNCHANGED <<articleVars, thermoVars>>
    /\ UNCHANGED inflight

\* POST /rest/v1/ with rand.Intn(100) = n
CreateArticle(body, n) ==
    /\ Len(articles) < MaxArticles
    /\ LET d == DecodeArticleRequest(body, ZeroArticle)
           bindErr == d.err \/ ~d.touched
           p == NewAddr(articles)
           h1 == [heap EXCEPT ![p] = ArticleRequestBind(d.Article)]
           db == dbNewArticle(h1, articles, p, n)
       IN  IF bindErr
           THEN /\ req' = Request("POST", "/rest/v1/", <<>>, body, NoRand)
                /\ resp' = ErrInvalidRequest("CreateArticle")
                /\ UNCHANGED articleVars
           ELSE /\ req' = Request("POST", "/rest/v1/", <<>>, body, n)
                /\ articles' = db.articles
                /\ heap' = db.heap
                /\ resp' = Response(201, "CreateArticle",
                                    NewArticleResponse(db.heap[p]))
    /\ UNCHANGED thermoVars
    /\ UNCHANGED inflight

\* GET /rest/v1/{articleID} and GET /rest/v1/{articleSlug}
GetArticle(seg) ==
    LET route == Route("GET", seg)
        ctx == ArticleCtx(heap, articles, route, seg)
    IN  /\ route \in {"/rest/v1/{articleID}", "/rest/v1/{articleSlug}"}
        /\ req' = Request("GET", route, seg, NoBody, NoRand)
        /\ resp' = IF ctx.err THEN ErrNotFound("ArticleCtx")
                   ELSE Response(200, "GetArticle",
                                 NewArticleResponse(heap[ctx.article]))
        /\ UNCHANGED <<articleVars, thermoVars>>
        /\ UNCHANGED inflight

\* PUT /rest/v1/{articleID}
UpdateArticle(seg, body) ==
    LET route == Route("PUT", seg)
        ctx == ArticleCtx(heap, articles, route, seg)
        p == ctx.article
        d == DecodeArticleRequest(body, heap[p])
        h1 == [heap EXCEPT ![p] = d.Article]
        h2 == [heap EXCEPT ![p] = ArticleRequestBind(d.Article)]
        db == dbUpdateArticle(h2, articles, h2[p].ID, p)
    IN  /\ route = "/rest/v1/{articleID}"
        /\ req' = Request("PUT", route, seg, body, NoRand)
        /\ IF ctx.err
           THEN /\ resp' = ErrNotFound("ArticleCtx")
                /\ UNCHANGED articleVars
           ELSE IF d.err
           THEN /\ resp' = ErrInvalidRequest("UpdateArticle")
                /\ heap' = h1
                /\ UNCHANGED articles
           ELSE /\ resp' = Response(200, "UpdateArticle",
                                    NewArticleResponse(h2[p]))
                /\ heap' = h2
                /\ articles' = db.articles
        /\ UNCHANGED thermoVars
        /\ UNCHANGED inflight

\* DELETE /rest/v1/{articleID}
DeleteArticle(seg) ==
    LET route == Route("DELETE", seg)
        ctx == ArticleCtx(heap, articles, route, seg)
        db == dbRemoveArticle(heap, articles, heap[ctx.article].ID)
    IN  /\ route = "/rest/v1/{articleID}"
        /\ req' = Request("DELETE", route, seg, NoBody, NoRand)
        /\ IF ctx.err
           THEN /\ resp' = ErrNotFound("ArticleCtx")
                /\ UNCHANGED articleVars
           ELSE IF db.err
           THEN /\ resp' = ErrInvalidRequest("DeleteArticle")
                /\ UNCHANGED articleVars
           ELSE /\ resp' = Response(200, "DeleteArticle",
                                    NewArticleResponse(heap[db.article]))
                /\ articles' = db.articles
                /\ heap' = Collect(heap, db.articles)
        /\ UNCHANGED thermoVars
        /\ UNCHANGED inflight


(***************************************************************************)
(* The generated temperature: min+rand.Float64()*(max-min) and "%f".       *)
(***************************************************************************)
min == -10
max == 40

\* rand.Float64() returns k/2^53 for some 0 <= k < 2^53.  The model draws
\* from the coarser grid k/FloatOne, every point of which Float64 can
\* return, and on which min+f*(max-min) is computed without rounding error.
FloatOne == 2^27

\* k*m = q*d + r with 0 <= r < d, computed in limbs of 10 bits so that no
\* intermediate value leaves 32 bits (d <= 2^20, m < 2^20).
RECURSIVE MulDiv(_, _, _)
MulDiv(k, m, d) ==
    IF k < 1024 THEN [q |-> (k * m) \div d, r |-> (k * m) % d]
    ELSE LET hi == MulDiv(k \div 1024, m, d)
             t == hi.r * 1024 + (k % 1024) * m
         IN  [q |-> hi.q * 1024 + (t \div d), r |-> t % d]

\* strconv's rounding of q + r/d to an integer: to nearest, ties to even.
RoundHalfEven(x, d) ==
    IF 2 * x.r > d \/ (2 * x.r = d /\ x.q % 2 = 1) THEN x.q + 1 ELSE x.q

\* The value min + (k/FloatOne)*(max-min) in millionths, rounded as "%f"
\* rounds it to six decimals.  (max-min)*10^6/FloatOne is reduced by 2^7;
\* min*10^6 is an even integer, so rounding the offset rounds the value.
TempMicro(k) ==
    min * 1000000
    + RoundHalfEven(MulDiv(k, ((max - min) * 1000000) \div 128,
                           FloatOne \div 128),
                    FloatOne \div 128)

\* Whether min + (k/FloatOne)*(max-min) < 0.
TempNegative(k) == k < ((-min) * FloatOne + (max - min) - 1) \div (max - min)

\* The six digits after the point.
Frac6(n) == << Digits[((n \div 100000) % 10) + 1],
               Digits[((n \div 10000) % 10) + 1],
               Digits[((n \div 1000) % 10) + 1],
               Digits[((n \div 100) % 10) + 1],
               Digits[((n \div 10) % 10) + 1],
               Digits[(n % 10) + 1] >>

\* fmt.Sprintf("%f", min+rand.Float64()*(max-min)) with Float64 = k/FloatOne
SprintfF(k) ==
    LET m == TempMicro(k)
        a == IF m < 0 THEN -m ELSE m
    IN  (IF TempNegative(k) THEN <<"-">> ELSE <<>>)
        \o Itoa(a \div 1000000) \o <<".">> \o Frac6(a % 1000000)

(***************************************************************************)
(* Device, temp, time, mode: the db functions and the request structs.     *)
(***************************************************************************)
\* A faulty variant of dbGetDevice: the time reported is the global Day.
dbGetDevice_DayAsTime ==
    [IP |-> IP, SSID |-> SSID, PassPhrase |-> PassPhrase,
     CurrentTime |-> Day]

\* dbGetDevice
dbGetDevice ==
    [IP |-> IP, SSID |-> SSID, PassPhrase |-> PassPhrase,
     CurrentTime |-> CurrentTime]

\* dbGetTemp with rand.Float64() = k/FloatOne, called when the globals
\* NightTemp, DayTemp and Thereshold hold night, day and thr.
dbGetTemp(k, night, day, thr) ==
    [CurrentTemp |-> SprintfF(k), NightTemp |-> night,
     DayTemp |-> day, Thereshold |-> thr]

\* dbGetTime
dbGetTime == [Day |-> Day, Night |-> Night]

\* dbGetMode
dbGetMode == [Mode |-> Mode, Heating |-> Heating]

\* render.Decode into &Times{}
DecodeTimes(body) ==
    [err |-> DecodeError(body, {"day", "night"}, {}),
     Times |-> [Day |-> DecodeString(body.obj, "day", <<>>),
                Night |-> DecodeString(body.obj, "night", <<>>)]]

\* (a *Times) Bind
TimesBind(t) == [t EXCEPT !.Day = ToLower(t.Day)]

\* A faulty variant of dbUpdateTime: the two assignments are crossed.
dbUpdateTime_Crossed(time) ==
    /\ Day' = time.Night
    /\ Night' = time.Day

\* dbUpdateTime(time)
dbUpdateTime(time) ==
    /\ Day' = time.Day
    /\ Night' = time.Night

\* render.Decode into &Temp{}
DecodeTemp(body) ==
    [err |-> DecodeError(body, {"currenttemp", "nighttemp", "daytemp",
                                "thereshold"}, {}),
     Temp |-> [CurrentTemp |-> DecodeString(body.obj, "currenttemp", <<>>),
               NightTemp |-> DecodeString(body.obj, "nighttemp", <<>>),
               DayTemp |-> DecodeString(body.obj, "daytemp", <<>>),
               Thereshold |-> DecodeString(body.obj, "thereshold", <<>>)]]

\* A faulty variant of dbUpdateTemp: the day and night values are crossed.
dbUpdateTemp_Crossed(temp) ==
    /\ DayTemp' = temp.NightTemp
    /\ NightTemp' = temp.DayTemp
    /\ Thereshold' = temp.Thereshold

\* dbUpdateTemp(temp)
dbUpdateTemp(temp) ==
    /\ DayTemp' = temp.DayTemp
    /\ NightTemp' = temp.NightTemp
    /\ Thereshold' = temp.Thereshold

\* render.Decode into &ModesIn{}: Mode `json:"mode"', Heating `json:"heting"'
DecodeModesIn(body) ==
    [err |-> DecodeError(body, {"mode", "heting"}, {}),
     ModesIn |-> [Mode |-> DecodeString(body.obj, "mode", <<>>),
                  Heating |-> DecodeString(body.obj, "heting", <<>>)]]

\* A faulty variant of dbUpdateMode: the incoming values go to slot 0.
dbUpdateMode_Slot0(mode) ==
    /\ Heating' = <<mode.Heating, Heating[2]>>
    /\ Mode' = <<mode.Mode, Mode[2]>>

\* dbUpdateMode(mode); Go's index 0 is 1 here.
dbUpdateMode(mode) ==
    /\ Heating' = <<CurrentStateOfHeating, mode.Heating>>
    /\ Mode' = <<CurrentStateOfMode, mode.Mode>>

(***************************************************************************)
(* Handlers of device, temp, time and mode.                                *)
(***************************************************************************)
\* GET /rest/v1/device
GetDevice ==
    /\ req' = Request("GET", "/rest/v1/device", <<>>, NoBody, NoRand)
    /\ resp' = Response(200, "GetDevice", dbGetDevice)
    /\ UNCHANGED <<articleVars, thermoVars>>
    /\ UNCHANGED inflight

\* GET /rest/v1/temp with rand.Float64() = k/FloatOne
GetTemp(k) ==
    /\ req' = Request("GET", "/rest/v1/temp", <<>>, NoBody, k)
    /\ resp' = Response(200, "GetTemp",
                        dbGetTemp(k, NightTemp, DayTemp, Thereshold))
    /\ UNCHANGED <<articleVars, thermoVars>>
    /\ UNCHANGED inflight

\* GET /rest/v1/time
GetTime ==
    /\ req' = Request("GET", "/rest/v1/time", <<>>, NoBody, NoRand)
    /\ resp' = Response(200, "GetTime", dbGetTime)
    /\ UNCHANGED <<articleVars, thermoVars>>
    /\ UNCHANGED inflight

\* GET /rest/v1/mode
GetMode ==
    /\ req' = Request("GET", "/rest/v1/mode", <<>>, NoBody, NoRand)
    /\ resp' = Response(200, "GetMode", dbGetMode)
    /\ UNCHANGED <<articleVars, thermoVars>>
    /\ UNCHANGED inflight

\* PUT /rest/v1/time
UpdateTime(body) ==
    LET d == DecodeTimes(body)
    IN  /\ req' = Request("PUT", "/rest/v1/time", <<>>, body, NoRand)
        /\ IF d.err
           THEN /\ resp' = ErrInvalidRequest("UpdateTime")
                /\ UNCHANGED timeVars
           ELSE /\ dbUpdateTime(TimesBind(d.Times))
                /\ resp' = Response(200, "UpdateTime", dbGetTime')
        /\ UNCHANGED <<articleVars, deviceVars, tempVars, modeVars>>
        /\ UNCHANGED inflight

\* PUT /rest/v1/temp; the response draws rand.Float64() = k/FloatOne
UpdateTemp(body, k) ==
    LET d == DecodeTemp(body)
    IN  /\ IF d.err
           THEN /\ req' = Request("PUT", "/rest/v1/temp", <<>>, body, NoRand)
                /\ resp' = ErrInvalidRequest("UpdateTemp")
                /\ UNCHANGED <<DayTemp, NightTemp, Thereshold>>
           ELSE /\ req' = Request("PUT", "/rest/v1/temp", <<>>, body, k)
                /\ dbUpdateTemp(d.Temp)
                /\ resp' = Response(200, "UpdateTemp",
                                    dbGetTemp(k, NightTemp', DayTemp',
                                              Thereshold'))
        /\ UNCHANGED <<articleVars, deviceVars, CurrentTemp, timeVars,
                       modeVars>>
        /\ UNCHANGED inflight

\* PUT /rest/v1/mode
UpdateMode(body) ==
    LET d == DecodeModesIn(body)
    IN  /\ req' = Request("PUT", "/rest/v1/mode", <<>>, body, NoRand)
        /\ IF d.err
           THEN /\ resp' = ErrInvalidRequest("UpdateMode")
                /\ UNCHANGED <<Mode, Heating>>
           ELSE /\ dbUpdateMode(d.ModesIn)
                /\ resp' = Response(200, "UpdateMode", dbGetMode')
        /\ UNCHANGED <<articleVars, deviceVars, tempVars, timeVars,
                       CurrentStateOfMode, CurrentStateOfHeating>>
        /\ UNCHANGED inflight

(***************************************************************************)
(* The admin sub-router, mounted at /admin behind AdminOnly.               *)
(***************************************************************************)
\* What r.Context().Value("acl.admin") returns, an interface value: nil when
\* the key is absent, else a dynamic type with its value.
CtxAbsent == [t |-> "nil", b |-> FALSE, s |-> ""]
CtxBool(b) == [t |-> "bool", b |-> b, s |-> ""]
CtxString(s) == [t |-> "string", b |-> FALSE, s |-> s]

\* A faulty variant of the gate: any value but the boolean false passes.
AdminOnly_Truthy(v) == ~(v.t = "nil" \/ (v.t = "bool" /\ ~v.b))

\* AdminOnly: isAdmin, ok := v.(bool); whether next.ServeHTTP is called.
AdminOnly(v) ==
    LET ok == v.t = "bool"
        isAdmin == IF ok THEN v.b ELSE FALSE
    IN  ~(~ok \/ ~isAdmin)

\* The routes of adminRouter.
AdminRoutes == {"/admin/", "/admin/accounts", "/admin/users/{userId}"}

\* The handler of an admin route: the text it writes, with status 200; a
\* path no route matches is answered 404 by the router.
adminRouter(route, userId) ==
    IF route = "/admin/"
    THEN Response(200, "adminRouter", [Text |-> "admin: index", Arg |-> <<>>])
    ELSE IF route = "/admin/accounts"
    THEN Response(200, "adminRouter",
                  [Text |-> "admin: list accounts..", Arg |-> <<>>])
    ELSE IF route = "/admin/users/{userId}"
    THEN Response(200, "adminRouter",
                  [Text |-> "admin: view user id %v", Arg |-> userId])
    ELSE Response(404, "NotFound", [Text |-> "404 page not found", Arg |-> <<>>])

\* A GET under /admin whose context holds v for "acl.admin".  The gate is
\* used by the sub-router, so it runs before the route is looked up.
Admin(route, userId, v) ==
    /\ req' = Request("GET", route, userId, NoBody, NoRand) @@ [acl |-> v]
    /\ resp' = IF AdminOnly(v)
               THEN adminRouter(route, userId)
               ELSE Response(403, "AdminOnly",
                             [Text |-> "Forbidden", Arg |-> <<>>])
    /\ UNCHANGED <<articleVars, thermoVars>>
    /\ UNCHANGED inflight

(***************************************************************************)
(* Requests served concurrently.  net/http runs every request in its own   *)
(* goroutine and the handlers take no lock, so the statements of two       *)
(* handlers interleave.  A step is one access of a handler to a global.    *)
(***************************************************************************)
Goroutines == 1..MaxInflight

\* type Times struct, zero value
ZeroTimes == [Day |-> <<>>, Night |-> <<>>]

\* A goroutine that serves no request: the handler's locals at their zero
\* values.  data is what Bind left, read what dbGetTime collected, article
\* and i the match of a lookup.
Idle ==
    [pc |-> "idle", method |-> "", route |-> "", seg |-> <<>>,
     body |-> NoBody, data |-> ZeroTimes, stores |-> {}, loads |-> {},
     read |-> ZeroTimes, article |-> Nil, i |-> 0, resp |-> NoResponse]

\* A faulty variant of the stores of dbUpdateTime: both globals are
\* assigned in one indivisible step.
dbUpdateTimeStore_Atomic(time, x) ==
    /\ Day' = time.Day
    /\ Night' = time.Night

\* One assignment of dbUpdateTime: Day = time.Day, or Night = time.Night.
dbUpdateTimeStore(time, x) ==
    IF x = "Day"
    THEN Day' = time.Day /\ UNCHANGED Night
    ELSE Night' = time.Night /\ UNCHANGED Day

\* One assignment of dbGetTime: t.Day = Day, or t.Night = Night.
dbGetTimeLoad(t, x) ==
    IF x = "Day" THEN [t EXCEPT !.Day = Day] ELSE [t EXCEPT !.Night = Night]

\* UpdateTime up to the call of dbUpdateTime: render.Bind into data.
TimeBind(g, body) ==
    LET d == DecodeTimes(body)
        r == [inflight[g] EXCEPT !.method = "PUT", !.route = "/rest/v1/time",
                                 !.body = body]
    IN  /\ inflight[g].pc = "idle"
        /\ inflight' = [inflight EXCEPT ![g] =
              IF d.err
              THEN [r EXCEPT !.pc = "done",
                             !.resp = ErrInvalidRequest("UpdateTime")]
              ELSE [r EXCEPT !.pc = "dbUpdateTime",
                             !.data = TimesBind(d.Times),
                             !.stores = {"Day", "Night"}]]
        /\ UNCHANGED <<articleVars, thermoVars, req, resp>>

\* dbUpdateTime, one assignment.  The two go to different variables and
\* nothing orders them for another goroutine, which may see either first.
TimeStore(g, x) ==
    LET left == inflight[g].stores \ {x}
    IN  /\ inflight[g].pc = "dbUpdateTime"
        /\ x \in inflight[g].stores
        /\ dbUpdateTimeStore(inflight[g].data, x)
        /\ inflight' = [inflight EXCEPT ![g] =
              IF left # {}
              THEN [@ EXCEPT !.stores = left]
              ELSE [@ EXCEPT !.stores = {}, !.pc = "dbGetTime",
                             !.loads = {"Day", "Night"}]]
        /\ UNCHANGED <<articleVars, deviceVars, tempVars, modeVars,
                       req, resp>>

\* dbGetTime, one assignment.
TimeLoad(g, x) ==
    LET left == inflight[g].loads \ {x}
    IN  /\ inflight[g].pc = "dbGetTime"
        /\ x \in inflight[g].loads
        /\ inflight' = [inflight EXCEPT ![g] =
              [@ EXCEPT !.read = dbGetTimeLoad(@, x),
                        !.loads = left,
                        !.pc = IF left = {} THEN "render" ELSE @]]
        /\ UNCHANGED <<articleVars, thermoVars, req, resp>>

\* render.Render(w, r, dbGetTime()): the response of UpdateTime.
TimeRender(g) ==
    /\ inflight[g].pc = "render"
    /\ inflight[g].route = "/rest/v1/time"
    /\ inflight' = [inflight EXCEPT ![g] =
          [@ EXCEPT !.pc = "done",
                    !.resp = Response(200, "UpdateTime",
                                      inflight[g].read)]]
    /\ UNCHANGED <<articleVars, thermoVars, req, resp>>

\* append(articles[:i], articles[i+1:]...) for the index i the loop of
\* dbRemoveArticle stopped at (counted from 1) and the list as it is when
\* the statement runs: articles[i+1:] panics when the list has become
\* shorter than i.
RemoveAt(l, i) ==
    IF i > Len(l) THEN [panic |-> TRUE, articles |-> l]
    ELSE [panic |-> FALSE,
          articles |-> SubSeq(l, 1, i - 1) \o SubSeq(l, i + 1, Len(l))]

\* middleware.Recoverer: a panic in a handler is answered 500.
Recoverer ==
    Response(500, "Recoverer", [StatusText |-> "Internal Server Error"])

\* DELETE /rest/v1/{articleID}, the ArticleCtx middleware: the lookup.
DeleteCtx(g, seg) ==
    LET route == Route("DELETE", seg)
        ctx == ArticleCtx(heap, articles, route, seg)
        r == [inflight[g] EXCEPT !.method = "DELETE", !.route = route,
                                 !.seg = seg]
    IN  /\ inflight[g].pc = "idle"
        /\ route = "/rest/v1/{articleID}"
        /\ inflight' = [inflight EXCEPT ![g] =
              IF ctx.err
              THEN [r EXCEPT !.pc = "done",
                             !.resp = ErrNotFound("ArticleCtx")]
              ELSE [r EXCEPT !.pc = "dbRemoveArticle",
                             !.article = ctx.article]]
        /\ UNCHANGED <<articleVars, thermoVars, req, resp>>

\* dbRemoveArticle(article.ID), the loop up to its match: i and a.
DeleteFind(g) ==
    LET i == FirstByID(heap, articles, heap[inflight[g].article].ID)
    IN  /\ inflight[g].pc = "dbRemoveArticle"
        /\ inflight' = [inflight EXCEPT ![g] =
              IF i = 0
              THEN [@ EXCEPT !.pc = "done",
                             !.resp = ErrInvalidRequest("DeleteArticle")]
              ELSE [@ EXCEPT !.pc = "append", !.i = i,
                             !.article = articles[i]]]
        /\ UNCHANGED <<articleVars, thermoVars, req, resp>>

\* dbRemoveArticle, the assignment to articles in the loop body.
DeleteAppend(g) ==
    LET rm == RemoveAt(articles, inflight[g].i)
    IN  /\ inflight[g].pc = "append"
        /\ articles' = rm.articles
        /\ inflight' = [inflight EXCEPT ![g] =
              IF rm.panic
              THEN [@ EXCEPT !.pc = "done", !.resp = Recoverer]
              ELSE [@ EXCEPT !.pc = "render"]]
        /\ UNCHANGED <<heap, thermoVars, req, resp>>

\* DeleteArticle: render.Render(w, r, NewArticleResponse(article))
DeleteRender(g) ==
    /\ inflight[g].pc = "render"
    /\ inflight[g].method = "DELETE"
    /\ inflight' = [inflight EXCEPT ![g] =
          [@ EXCEPT !.pc = "done",
                    !.resp = Response(200, "DeleteArticle",
                       NewArticleResponse(heap[inflight[g].article]))]]
    /\ UNCHANGED <<articleVars, thermoVars, req, resp>>

(***************************************************************************)
(* Initial state: the package-level variable initialisers.                 *)
(***************************************************************************)
\* time.Now().Format("2006-01-02 15:04:05") at process start.
StartTimes == { <<"2","0","2","6","-","1","1","-","0","6"," ","1","2",":","0","0",":","0","0">>,
                <<"2","0","2","6","-","1","1","-","0","7"," ","0","8",":","3","0",":","1","5">> }

Init ==
    /\ articles = [i \in 1..Len(Fixture) |-> i]
    /\ heap = [p \in Addr |-> IF p <= Len(Fixture) THEN Fixture[p]
                              ELSE ZeroArticle]
    /\ IP = <<"1","9","2",".","1","6","8",".","1",".","1","2","3">>
    /\ SSID = <<"M","r","W","h","i","t","e">>
    /\ PassPhrase = <<"F">>
    /\ CurrentTime \in StartTimes
    /\ CurrentTemp = <<"2","2",".","0","0">>
    /\ NightTemp = <<"1","8",".","0","0">>
    /\ DayTemp = <<"2","4",".","0","0">>
    /\ Thereshold = <<"0",".","2","0">>
    /\ Day = <<"0","6",":","0","0">>
    /\ Night = <<"2","2",":","0","0">>
    /\ CurrentStateOfMode = <<"n","i","g","h","t">>
    /\ CurrentStateOfHeating = <<"o","f","f">>
    /\ Mode = <<CurrentStateOfMode, <<"a","u","t","o">>>>
    /\ Heating = <<CurrentStateOfHeating, <<"a","u","t","o">>>>
    /\ req = NoRequest
    /\ resp = NoResponse
    /\ inflight = [g \in Goroutines |-> Idle]


(***************************************************************************)
(* Inputs of the requests.                                                 *)
(***************************************************************************)
\* Outcomes of rand.Intn(100): the smallest and the largest.
IntnSamples == {0, IntnN - 1}

\* Outcomes k of rand.Float64() = k/FloatOne: the smallest, one whose
\* millionths fall on a tie (-9.8046875), the largest negative value, and
\* the largest.
FloatSamples == {0, 2^19, 26843545, FloatOne - 1}

\* {"id":"7","title":"Yo","slug":"hi","user_id":100}
BodyFull == Json([id |-> Str(<<"7">>), title |-> Str(<<"Y","o">>),
                  slug |-> Str(<<"h","i">>), user_id |-> Num(100)])
\* {"id":"2"}: no member of the embedded Article
BodyIdOnly == Json([id |-> Str(<<"2">>)])
\* {"title":"YO","user_id":"x"}: user_id is not a number
BodyTypeError == Json([title |-> Str(<<"Y","O">>),
                       user_id |-> Str(<<"x">>)])

ArticleBodies == {BodyFull, BodyIdOnly, BodyTypeError, BadJson}

\* Path segments of /rest/v1/<seg>.
ArticleSegs == { <<"1">>, <<"7">>, SprintfD(IDBase),
                 <<"h","i">>, <<"t","i","m","e">> }

\* {"day":"07:30","night":"23:00"}
TimeBodies ==
    { Json([day |-> Str(<<"0","7",":","3","0">>), night |-> Str(<<"2","3",":","0","0">>)]),
      Json([day |-> Str(<<"N","O","O","N">>), night |-> Str(<<"T","E","N">>)]),
      Json([day |-> Num(7), night |-> Str(<<"2","3",":","0","0">>)]),
      BadJson }

TempBodies ==
    { Json([daytemp |-> Str(<<"2","5",".","5","0">>), nighttemp |-> Str(<<"1","7",".","0","0">>),
            thereshold |-> Str(<<"0",".","5","0">>), currenttemp |-> Str(<<"9","9",".","0","0">>)]),
      Json([daytemp |-> Str(<<"2","1",".","5","0">>)]),
      BadJson }

\* {"mode":"day","heating":"on"}, the body the code documents, and
\* {"mode":"","heting":"hot"}: the key the struct tag names, an empty
\* string and a value outside on/off/auto.
ModeBodies ==
    { Json([mode |-> Str(<<"d","a","y">>), heating |-> Str(<<"o","n">>)]),
      Json([mode |-> Str(<<>>), heting |-> Str(<<"h","o","t">>)]),
      BadJson }

(***************************************************************************)
(* Specifications.                                                         *)
(***************************************************************************)
\* Requests to the articles routes only, over all their inputs.
NextArticles ==
    \/ ListArticles
    \/ \E b \in ArticleBodies, n \in IntnSamples : CreateArticle(b, n)
    \/ \E seg \in ArticleSegs : GetArticle(seg)
    \/ \E seg \in ArticleSegs, b \in ArticleBodies : UpdateArticle(seg, b)
    \/ \E seg \in ArticleSegs : DeleteArticle(seg)

\* The process started at one of the start times.
InitArticles ==
    /\ Init
    /\ CurrentTime = <<"2","0","2","6","-","1","1","-","0","6"," ","1","2",":","0","0",":","0","0">>

SpecArticles == InitArticles /\ [][NextArticles]_vars

\* Every route of /rest/v1; the articles routes over a few inputs.
Next ==
    \/ ListArticles
    \/ \E b \in {BodyFull, BadJson} : CreateArticle(b, 0)
    \/ \E seg \in {<<"1">>, SprintfD(IDBase), <<"h","i">>} : GetArticle(seg)
    \/ \E seg \in {<<"1">>, SprintfD(IDBase)} : UpdateArticle(seg, BodyFull)
    \/ \E seg \in {<<"1">>, SprintfD(IDBase)} : DeleteArticle(seg)
    \/ GetDevice
    \/ \E k \in FloatSamples : GetTemp(k)
    \/ GetTime
    \/ GetMode
    \/ \E b \in TimeBodies : UpdateTime(b)
    \/ \E b \in TempBodies, k \in {0, FloatOne - 1} : UpdateTemp(b, k)
    \/ \E b \in ModeBodies : UpdateMode(b)

Spec == Init /\ [][Next]_vars


\* The contexts AdminOnly is handed: without the key (the only one the
\* middlewares of main produce, none of which sets it), with a boolean, with
\* a value of another type.
AclValues == {CtxAbsent, CtxBool(TRUE), CtxBool(FALSE), CtxString("true")}

\* Paths under /admin as the router resolves them: the route and the value
\* of userId; "none" is a path no route matches.
AdminPaths ==
    { <<"/admin/", <<>> >>, <<"/admin/accounts", <<>> >>,
      <<"/admin/users/{userId}", <<"7">> >>,
      <<"/admin/users/{userId}", <<"1","0","0">> >>,
      <<"none", <<>> >> }

\* Requests to /admin, between requests that read and set the time.
NextAdmin ==
    \/ \E path \in AdminPaths, v \in AclValues : Admin(path[1], path[2], v)
    \/ GetDevice
    \/ GetTime
    \/ \E b \in TimeBodies : UpdateTime(b)

SpecAdmin == Init /\ [][NextAdmin]_vars

\* Bodies of concurrent PUT /rest/v1/time requests: two pairs of HH:MM
\* values, and a body that does not decode.  All values have the length
\* of the initial ones, so a string whose two words were written by two
\* racing assignments still is one of the values assigned.
RaceTimeBodies ==
    { Json([day |-> Str(<<"0","7",":","3","0">>), night |-> Str(<<"2","3",":","0","0">>)]),
      Json([day |-> Str(<<"0","8",":","4","5">>), night |-> Str(<<"2","1",":","1","5">>)]),
      BadJson }

\* MaxInflight PUT /rest/v1/time requests, each in its goroutine.
NextTimeRace ==
    \/ \E g \in Goroutines, b \in RaceTimeBodies : TimeBind(g, b)
    \/ \E g \in Goroutines, x \in {"Day", "Night"} : TimeStore(g, x)
    \/ \E g \in Goroutines, x \in {"Day", "Night"} : TimeLoad(g, x)
    \/ \E g \in Goroutines : TimeRender(g)

SpecTimeRace == Init /\ [][NextTimeRace]_vars

\* Ids of concurrent DELETE requests: the first, a middle and the last
\* fixture article, and an id no article has.
RaceDeleteSegs == {<<"1">>, <<"3">>, <<"5">>, <<"7">>}

\* MaxInflight DELETE /rest/v1/{articleID} requests, each in its goroutine.
NextDeleteRace ==
    \/ \E g \in Goroutines, seg \in RaceDeleteSegs : DeleteCtx(g, seg)
    \/ \E g \in Goroutines : DeleteFind(g)
    \/ \E g \in Goroutines : DeleteAppend(g)
    \/ \E g \in Goroutines : DeleteRender(g)

SpecDeleteRace == Init /\ [][NextDeleteRace]_vars

(***************************************************************************)
(* Vocabulary of the properties.                                           *)
(***************************************************************************)
\* The stored articles, in list order.
Stored == Deref(heap, articles)

\* The indices of the stored articles with the id, with the slug.
WithID(id) == {i \in 1..Len(articles) : heap[articles[i]].ID = id}
WithSlug(slug) == {i \in 1..Len(articles) : heap[articles[i]].Slug = slug}

\* The same in the state a step leads to.
WithIDNext(id) == {i \in 1..Len(articles') : heap'[articles'[i]].ID = id}

\* The least element of a non-empty set of indices.
Least(S) == CHOOSE i \in S : \A j \in S : i <= j

\* The list l without its entry i.
Without(l, i) == [j \in 1..(Len(l) - 1) |-> IF j < i THEN l[j] ELSE l[j + 1]]

\* No two stored articles share an id.
DistinctIDs ==
    \A i, j \in 1..Len(articles) :
        heap[articles[i]].ID = heap[articles[j]].ID => i = j

\* What a JSON body submits for a string member and for a number member.
SubmittedString(b, k, default) ==
    IF b.obj[k].t = "string" THEN b.obj[k].s ELSE default
SubmittedNumber(b, k, default) ==
    IF b.obj[k].t = "number" THEN b.obj[k].n ELSE default

\* The body decodes into an ArticleRequest without error: valid JSON, strings
\* where the struct has strings, a number where it has one.
DecodesAsArticle(b) ==
    /\ b.syntax
    /\ \A k \in {"id", "title", "slug"} : b.obj[k].t \in {"absent", "string"}
    /\ b.obj["user_id"].t \in {"absent", "number"}

\* A POST body that binds: it decodes and carries a member of Article.
BindableCreate(b) ==
    /\ DecodesAsArticle(b)
    /\ \E k \in {"title", "slug", "user_id"} : b.obj[k].t # "absent"

\* The request served by the step is METHOD on the route.
Served(method, route) == req'.method = method /\ req'.route = route

(***************************************************************************)
(* C1.  A POST /rest/v1 with a bindable body appends exactly one article   *)
(* at the end of the list: the list grows by one, every article already    *)
(* stored keeps its position and content, the new article's id is the      *)
(* decimal text of an integer in 10..109, and the status is 201.           *)
(***************************************************************************)
C1_CreateAppendsOne ==
    [][ (Served("POST", "/rest/v1/") /\ BindableCreate(req'.body)) =>
          /\ Len(articles') = Len(articles) + 1
          /\ \A i \in 1..Len(articles) :
                /\ articles'[i] = articles[i]
                /\ heap'[articles'[i]] = heap[articles[i]]
          /\ articles'[Len(articles')] \notin Range(articles)
          /\ \E n \in 10..109 :
                heap'[articles'[Len(articles')]].ID = SprintfD(n)
          /\ resp'.status = 201 ]_vars

\* A second article was created after a first: the list holds the fixture,
\* then the two, the last with the largest id the generator gives.
C1_Witness ==
    /\ req.method = "POST"
    /\ BindableCreate(req.body)
    /\ resp.status = 201
    /\ Len(articles) = Len(Fixture) + 2
    /\ Stored[Len(articles)].ID = <<"1","0","9">>
    /\ Stored[Len(articles) - 1].ID = <<"1","0">>

(***************************************************************************)
(* C2.  For GET, PUT and DELETE routed to /rest/v1/{articleID}: when no    *)
(* stored article has the requested id the response is 404, rendered by    *)
(* ArticleCtx (the handler behind it is not run), and the list and its     *)
(* articles are unchanged; when one exists the handler runs and operates   *)
(* on the first article in list order with that id: GET returns it, PUT    *)
(* writes to it alone, DELETE removes and returns it.                      *)
(***************************************************************************)
C2_ByIdOrNotFound ==
    [][ req'.route = "/rest/v1/{articleID}" =>
          IF WithID(req'.seg) = {}
          THEN /\ resp'.status = 404
               /\ resp'.by = "ArticleCtx"
               /\ UNCHANGED articleVars
          ELSE LET first == Least(WithID(req'.seg))
                   p == articles[first]
               IN  /\ resp'.by # "ArticleCtx"
                   /\ req'.method = "GET" =>
                        /\ resp'.by = "GetArticle"
                        /\ resp'.payload.Article = heap[p]
                        /\ UNCHANGED articleVars
                   /\ req'.method = "PUT" =>
                        /\ resp'.by = "UpdateArticle"
                        /\ articles' = articles
                        /\ \A q \in Addr \ {p} : heap'[q] = heap[q]
                        /\ resp'.status = 200 =>
                              resp'.payload.Article = heap'[p]
                   /\ req'.method = "DELETE" =>
                        /\ resp'.by = "DeleteArticle"
                        /\ resp'.payload.Article = heap[p]
                        /\ articles' = Without(articles, first)
                        /\ \A q \in Range(articles') : heap'[q] = heap[q]
      ]_vars

\* A DELETE by an id two articles had: the first was removed and returned,
\* the second is still stored and differs from it.
C2_Witness ==
    /\ req.method = "DELETE"
    /\ req.route = "/rest/v1/{articleID}"
    /\ resp.status = 200
    /\ WithID(req.seg) # {}
    /\ \E i \in WithID(req.seg) : Stored[i] # resp.payload.Article

(***************************************************************************)
(* C3.  After a successful DELETE /rest/v1/{id}, the ids in the list       *)
(* having been pairwise distinct, the deleted article is returned, the     *)
(* list holds exactly the other articles in their previous order (one      *)
(* fewer), and a later GET of that id answers 404 until an article with    *)
(* the id is created again: GET by id answers 404 exactly when no stored   *)
(* article has the id, and an id that is not stored becomes stored only by *)
(* a POST.                                                                 *)
(***************************************************************************)
C3_DeleteThenNotFound ==
    [][ /\ ( /\ Served("DELETE", "/rest/v1/{articleID}")
             /\ resp'.status = 200
             /\ DistinctIDs ) =>
            \E i \in 1..Len(articles) :
                /\ Stored[i].ID = req'.seg
                /\ resp'.payload.Article = Stored[i]
                /\ Len(articles') = Len(articles) - 1
                /\ Stored' = Without(Stored, i)
                /\ \A j \in 1..Len(articles') : Stored'[j].ID # req'.seg
        /\ Served("GET", "/rest/v1/{articleID}") =>
            (resp'.status = 404 <=> WithID(req'.seg) = {})
        /\ \A i \in 1..Len(articles') :
            (WithID(Stored'[i].ID) = {}) => req'.method = "POST"
      ]_vars

\* The article with the generated id 10 was deleted from a list of six
\* with distinct ids: the five others remain.
C3_Witness ==
    /\ req.method = "DELETE"
    /\ req.seg = <<"1","0">>
    /\ resp.status = 200
    /\ resp.payload.Article.ID = <<"1","0">>
    /\ DistinctIDs
    /\ WithID(req.seg) = {}
    /\ Len(articles) = Len(Fixture)

(***************************************************************************)
(* C4.  A PUT /rest/v1/{id} for an existing id with a body that decodes    *)
(* updates the first article with that id: its title, slug and user id     *)
(* become the submitted ones (the title lower-cased; a member the body     *)
(* leaves out keeps its value), its id stays, the response is 200 with the *)
(* updated article, and the list and every other article are unchanged.    *)
(***************************************************************************)
C4_UpdateFirstById ==
    [][ ( /\ Served("PUT", "/rest/v1/{articleID}")
          /\ WithID(req'.seg) # {}
          /\ DecodesAsArticle(req'.body) ) =>
          LET p == articles[Least(WithID(req'.seg))]
              b == req'.body
          IN  /\ resp'.status = 200
              /\ heap'[p] =
                   [ID |-> heap[p].ID,
                    UserID |-> SubmittedNumber(b, "user_id", heap[p].UserID),
                    Title |-> ToLower(SubmittedString(b, "title",
                                                      heap[p].Title)),
                    Slug |-> SubmittedString(b, "slug", heap[p].Slug)]
              /\ resp'.payload.Article = heap'[p]
              /\ articles' = articles
              /\ \A q \in Addr \ {p} : heap'[q] = heap[q]
      ]_vars

\* The first fixture article was updated with a body whose title has an
\* upper-case letter: it is stored in lower case, with the body's slug.
C4_Witness ==
    /\ req.method = "PUT"
    /\ req.seg = <<"1">>
    /\ req.body = BodyFull
    /\ resp.status = 200
    /\ Stored[1].Title = <<"y","o">>
    /\ Stored[1].Title # req.body.obj["title"].s
    /\ Stored[1].Slug = req.body.obj["slug"].s

(***************************************************************************)
(* C5.  An id sent in a request body never becomes the id of a stored      *)
(* article: over every step an article that stays stored keeps its id, an  *)
(* article that enters the list does so by a POST and carries the id       *)
(* generated for that request, and a PUT leaves the ids of the list as     *)
(* they were.                                                              *)
(***************************************************************************)
C5_ClientIdIgnored ==
    [][ /\ \A i \in 1..Len(articles') :
             IF articles'[i] \in Range(articles)
             THEN heap'[articles'[i]].ID = heap[articles'[i]].ID
             ELSE /\ req'.method = "POST"
                  /\ heap'[articles'[i]].ID = SprintfD(req'.rnd + IDBase)
        /\ req'.method = "PUT" =>
             [i \in 1..Len(articles') |-> Stored'[i].ID]
               = [i \in 1..Len(articles) |-> Stored[i].ID]
        /\ ( /\ req'.method \in {"POST", "PUT"}
             /\ req'.body.obj["id"].t = "string"
             /\ WithID(req'.body.obj["id"].s) = {} ) =>
             \A i \in 1..Len(articles') :
                 Stored'[i].ID # req'.body.obj["id"].s
      ]_vars

\* A PUT whose body names another id than the URL was served: the article
\* returned still has the id of the URL.
C5_Witness ==
    /\ req.method = "PUT"
    /\ resp.status = 200
    /\ req.body.obj["id"].t = "string"
    /\ req.body.obj["id"].s # req.seg
    /\ resp.payload.Article.ID = req.seg
    /\ \E i \in 1..Len(articles) : Stored[i].ID = SprintfD(IDBase)

(***************************************************************************)
(* C6.  A GET routed to /rest/v1/{articleSlug} returns the first article   *)
(* in list order whose slug equals the requested one, answers 404 when     *)
(* there is none, and changes nothing.                                     *)
(***************************************************************************)
C6_GetBySlug ==
    [][ req'.route = "/rest/v1/{articleSlug}" =>
          /\ req'.method = "GET"
          /\ UNCHANGED <<articleVars, thermoVars>>
          /\ IF WithSlug(req'.seg) = {}
             THEN resp'.status = 404
             ELSE /\ resp'.status = 200
                  /\ resp'.payload.Article =
                        Stored[Least(WithSlug(req'.seg))]
      ]_vars

\* Two different articles have the requested slug and the earlier one was
\* returned.
C6_Witness ==
    /\ req.route = "/rest/v1/{articleSlug}"
    /\ resp.status = 200
    /\ \E i, j \in WithSlug(req.seg) :
          /\ i < j
          /\ Stored[i] # Stored[j]
          /\ resp.payload.Article = Stored[i]

(***************************************************************************)
(* C7.  A POST /rest/v1 whose body cannot be bound (it is not JSON, a      *)
(* member has the wrong type, or it has no member of Article) answers 400, *)
(* leaves the list and its articles unchanged and generates no id.         *)
(***************************************************************************)
C7_CreateRejected ==
    [][ (Served("POST", "/rest/v1/") /\ ~BindableCreate(req'.body)) =>
          /\ resp'.status = 400
          /\ UNCHANGED articleVars
          /\ req'.rnd = NoRand ]_vars

\* A JSON body that holds an id only was rejected.
C7_Witness ==
    /\ req.method = "POST"
    /\ req.body = BodyIdOnly
    /\ resp.status = 400
    /\ req.rnd = NoRand

(***************************************************************************)
(* Vocabulary of the thermostat properties.                                *)
(***************************************************************************)
\* The body decodes into a struct whose fields, tagged keys, are strings.
DecodesAsStrings(b, keys) ==
    /\ b.syntax
    /\ \A k \in keys : b.obj[k].t \in {"absent", "string"}

\* The number a decimal digit stands for.
DigitValue(c) == CHOOSE d \in 0..9 : Digits[d + 1] = c

RECURSIVE ParseDigits(_)
\* The number a text of decimal digits stands for.
ParseDigits(s) ==
    IF s = <<>> THEN 0
    ELSE 10 * ParseDigits(SubSeq(s, 1, Len(s) - 1)) + DigitValue(s[Len(s)])

\* The text is a decimal number with six decimals, signed or not.
IsDecimal6(text) ==
    LET body == IF text # <<>> /\ text[1] = "-" THEN Tail(text) ELSE text
        n == Len(body)
    IN  /\ n >= 8
        /\ body[n - 6] = "."
        /\ \A i \in (1..n) \ {n - 6} : \E d \in 1..10 : Digits[d] = body[i]

\* The number such a text stands for, in millionths.
Millionths(text) ==
    LET neg == text[1] = "-"
        body == IF neg THEN Tail(text) ELSE text
        n == Len(body)
        digits == SubSeq(body, 1, n - 7) \o SubSeq(body, n - 5, n)
    IN  IF neg THEN 0 - ParseDigits(digits) ELSE ParseDigits(digits)

(***************************************************************************)
(* C8 as stated.  A PUT /rest/v1/time with no other request interleaved    *)
(* sets Day and Night to the submitted day and night and its response      *)
(* carries exactly those two values.                                       *)
(***************************************************************************)
C8_AsStated ==
    [][ ( /\ Served("PUT", "/rest/v1/time")
          /\ DecodesAsStrings(req'.body, {"day", "night"}) ) =>
          LET day == SubmittedString(req'.body, "day", <<>>)
              night == SubmittedString(req'.body, "night", <<>>)
          IN  /\ Day' = day
              /\ Night' = night
              /\ resp'.payload = [Day |-> day, Night |-> night] ]_vars

(***************************************************************************)
(* C8.  A PUT /rest/v1/time with no other request interleaved and a body   *)
(* that decodes sets Day to the submitted day in lower case and Night to   *)
(* the submitted night, and its response carries the two stored values; a  *)
(* body that does not decode is answered 400 and changes neither.  Every   *)
(* GET /rest/v1/time returns the stored pair, which only a PUT             *)
(* /rest/v1/time changes; the PUT changes no other global (temperatures,   *)
(* modes, device fields, articles).                                        *)
(***************************************************************************)
C8_TimeUpdate ==
    [][ /\ Served("PUT", "/rest/v1/time") =>
            /\ UNCHANGED <<articleVars, deviceVars, tempVars, modeVars>>
            /\ IF DecodesAsStrings(req'.body, {"day", "night"})
               THEN /\ Day' = ToLower(SubmittedString(req'.body, "day", <<>>))
                    /\ Night' = SubmittedString(req'.body, "night", <<>>)
                    /\ resp'.status = 200
                    /\ resp'.payload = [Day |-> Day', Night |-> Night']
               ELSE /\ resp'.status = 400
                    /\ UNCHANGED timeVars
        /\ Served("GET", "/rest/v1/time") =>
            /\ resp'.payload = [Day |-> Day, Night |-> Night]
            /\ UNCHANGED <<articleVars, thermoVars>>
        /\ ~Served("PUT", "/rest/v1/time") => UNCHANGED timeVars
      ]_vars

\* A day in upper case and a night in upper case were submitted: the day is
\* stored in lower case, the night as submitted, and both are echoed.
C8_Witness ==
    /\ req.method = "PUT"
    /\ req.route = "/rest/v1/time"
    /\ resp.status = 200
    /\ req.body.obj["day"].s = <<"N","O","O","N">>
    /\ Day = <<"n","o","o","n">>
    /\ Night = <<"T","E","N">>
    /\ resp.payload = [Day |-> Day, Night |-> Night]

(***************************************************************************)
(* C9 as stated.  A PUT /rest/v1/mode whose body has the members mode = m  *)
(* and heating = h, the shape the code documents, overwrites the mode      *)
(* state with m and the heating state with h, and its response returns     *)
(* both (as does a GET /rest/v1/mode, which renders the same globals).     *)
(***************************************************************************)
C9_AsStated ==
    [][ ( /\ Served("PUT", "/rest/v1/mode")
          /\ req'.body.syntax
          /\ req'.body.obj["mode"].t = "string"
          /\ req'.body.obj["heating"].t = "string" ) =>
          LET m == req'.body.obj["mode"].s
              h == req'.body.obj["heating"].s
          IN  /\ m \in Range(Mode')
              /\ h \in Range(Heating')
              /\ resp'.status = 200
              /\ m \in Range(resp'.payload.Mode)
              /\ h \in Range(resp'.payload.Heating) ]_vars

(***************************************************************************)
(* C10 as stated.  GET /rest/v1/temp returns a current temperature in the  *)
(* range [-10, 40).                                                        *)
(***************************************************************************)
C10_AsStated ==
    [][ Served("GET", "/rest/v1/temp") =>
          /\ IsDecimal6(resp'.payload.CurrentTemp)
          /\ Millionths(resp'.payload.CurrentTemp) >= -10 * 1000000
          /\ Millionths(resp'.payload.CurrentTemp) < 40 * 1000000 ]_vars

(***************************************************************************)
(* C10.  GET /rest/v1/temp returns a current temperature generated for the *)
(* request, rendered with six decimals, in the closed range [-10, 40] (a   *)
(* draw within half a millionth of 40 is rendered as 40.000000), together  *)
(* with the stored night, day and threshold values, and modifies no        *)
(* global; no operation writes the global CurrentTemp.  PUT /rest/v1/temp  *)
(* with a body that decodes overwrites DayTemp, NightTemp and Thereshold   *)
(* with the submitted values and nothing else, whatever currenttemp the    *)
(* body sends; with a body that does not decode it changes nothing.        *)
(***************************************************************************)
C10_TempFrame ==
    [][ /\ CurrentTemp' = CurrentTemp
        /\ Served("GET", "/rest/v1/temp") =>
            /\ UNCHANGED <<articleVars, thermoVars>>
            /\ IsDecimal6(resp'.payload.CurrentTemp)
            /\ Millionths(resp'.payload.CurrentTemp) >= -10 * 1000000
            /\ Millionths(resp'.payload.CurrentTemp) <= 40 * 1000000
            /\ resp'.payload.NightTemp = NightTemp
            /\ resp'.payload.DayTemp = DayTemp
            /\ resp'.payload.Thereshold = Thereshold
        /\ Served("PUT", "/rest/v1/temp") =>
            /\ UNCHANGED <<articleVars, deviceVars, timeVars, modeVars>>
            /\ IF DecodesAsStrings(req'.body, {"currenttemp", "nighttemp",
                                               "daytemp", "thereshold"})
               THEN /\ DayTemp' = SubmittedString(req'.body, "daytemp", <<>>)
                    /\ NightTemp' =
                          SubmittedString(req'.body, "nighttemp", <<>>)
                    /\ Thereshold' =
                          SubmittedString(req'.body, "thereshold", <<>>)
                    /\ resp'.status = 200
                    /\ IsDecimal6(resp'.payload.CurrentTemp)
                    /\ resp'.payload.NightTemp = NightTemp'
                    /\ resp'.payload.DayTemp = DayTemp'
                    /\ resp'.payload.Thereshold = Thereshold'
               ELSE /\ resp'.status = 400
                    /\ UNCHANGED <<DayTemp, NightTemp, Thereshold>>
      ]_vars

\* After a PUT /rest/v1/temp that sent a currenttemp, a GET /rest/v1/temp
\* whose draw is the largest returns 40.000000 with the submitted day
\* temperature; the global CurrentTemp has its initial value.
C10_Witness ==
    /\ req.method = "GET"
    /\ req.route = "/rest/v1/temp"
    /\ resp.payload.CurrentTemp = <<"4","0",".","0","0","0","0","0","0">>
    /\ resp.payload.DayTemp = <<"2","5",".","5","0">>
    /\ DayTemp = <<"2","5",".","5","0">>
    /\ CurrentTemp = <<"2","2",".","0","0">>

(***************************************************************************)
(* C11.  A request under /admin reaches an admin handler only if its       *)
(* context holds the boolean true for the key acl.admin; in every other    *)
(* case (key absent, value not a boolean, or false) the response is 403    *)
(* and no admin handler is run.                                            *)
(***************************************************************************)
C11_AdminGate ==
    [][ ("acl" \in DOMAIN req') =>
          IF req'.acl.t = "bool" /\ req'.acl.b
          THEN /\ resp'.by # "AdminOnly"
               /\ req'.route \in AdminRoutes =>
                    (resp'.by = "adminRouter" /\ resp'.status = 200)
          ELSE /\ resp'.status = 403
               /\ resp'.by = "AdminOnly" ]_vars

\* A request for a user's page whose context holds the string "true", not
\* the boolean, was refused.
C11_Witness ==
    /\ "acl" \in DOMAIN req
    /\ req.route = "/admin/users/{userId}"
    /\ req.acl.t = "string"
    /\ req.acl.s = "true"
    /\ resp.status = 403
    /\ resp.by = "AdminOnly"

(***************************************************************************)
(* Vocabulary of the properties of concurrent requests.                    *)
(***************************************************************************)
\* Every request in flight has been answered.
AllDone == \A g \in Goroutines : inflight[g].pc = "done"

\* The (day, night) pair the request of goroutine g submitted.
SubmittedTimes(g) ==
    [Day |-> SubmittedString(inflight[g].body, "day", <<>>),
     Night |-> SubmittedString(inflight[g].body, "night", <<>>)]

(***************************************************************************)
(* C12.  Two concurrent PUT /rest/v1/time requests race on the globals.    *)
(* The two assignments of dbUpdateTime are separate steps: a step of a     *)
(* request assigns its own day to Day and leaves Night, or its own night   *)
(* to Night and leaves Day, and nothing keeps the steps of another request *)
(* from falling in between.  So when all requests are answered Day is a    *)
(* day and Night a night that some request submitted (or the initial       *)
(* one), but not always of the same request: the witness is a final state  *)
(* with Day from one request and Night from the other.                     *)
(***************************************************************************)
C12_TimeRace ==
    [][ /\ \A g \in Goroutines :
            inflight[g].stores # inflight'[g].stores =>
              \/ /\ Day' = SubmittedTimes(g)'.Day
                 /\ Night' = Night
                 /\ inflight'[g].stores = inflight[g].stores \ {"Day"}
              \/ /\ Night' = SubmittedTimes(g)'.Night
                 /\ Day' = Day
                 /\ inflight'[g].stores = inflight[g].stores \ {"Night"}
              \/ /\ inflight[g].pc = "idle"
                 /\ UNCHANGED timeVars
        /\ (\A g \in Goroutines : inflight[g].stores = inflight'[g].stores)
              => UNCHANGED timeVars
        /\ AllDone' =>
              /\ \/ \E g \in Goroutines : Day' = SubmittedTimes(g)'.Day
                 \/ Day' = <<"0","6",":","0","0">>
              /\ \/ \E g \in Goroutines : Night' = SubmittedTimes(g)'.Night
                 \/ Night' = <<"2","2",":","0","0">>
      ]_vars

\* Both requests were answered 200; Day is what the first submitted, Night
\* what the second submitted, a pair neither of them submitted.
C12_Witness ==
    /\ AllDone
    /\ \A g \in Goroutines : inflight[g].resp.status = 200
    /\ \E g, h \in Goroutines :
          /\ Day = SubmittedTimes(g).Day
          /\ Night = SubmittedTimes(h).Night
          /\ \A k \in Goroutines :
                <<Day, Night>> # <<SubmittedTimes(k).Day,
                                   SubmittedTimes(k).Night>>

(***************************************************************************)
(* C13 as stated.  The response of a PUT /rest/v1/time echoes the values   *)
(* that this same request submitted, also when other PUT requests to the   *)
(* endpoint run concurrently with it.                                      *)
(***************************************************************************)
C13_AsStated ==
    \A g \in Goroutines :
        (inflight[g].pc = "done" /\ inflight[g].resp.status = 200) =>
            inflight[g].resp.payload = SubmittedTimes(g)

(***************************************************************************)
(* C14.  Creation does not check the generated id against the stored ids:  *)
(* a POST that binds stores its article under the generated id also when   *)
(* an article with that id is stored already, so two articles with one id  *)
(* are reachable by repeated POST.  GET, PUT and DELETE by that id then    *)
(* act on the earliest of them in the list; every later one stays in the   *)
(* list, is not returned and is not modified, until the earlier ones are   *)
(* deleted.                                                                *)
(***************************************************************************)
C14_DuplicateIds ==
    [][ /\ (Served("POST", "/rest/v1/") /\ BindableCreate(req'.body)) =>
            /\ Len(articles') = Len(articles) + 1
            /\ Stored'[Len(articles')].ID = SprintfD(req'.rnd + IDBase)
            /\ Cardinality(WithIDNext(SprintfD(req'.rnd + IDBase))) =
                 Cardinality(WithID(SprintfD(req'.rnd + IDBase))) + 1
        /\ ( /\ req'.route = "/rest/v1/{articleID}"
             /\ Cardinality(WithID(req'.seg)) >= 2 ) =>
            LET first == Least(WithID(req'.seg))
            IN  /\ resp'.status \in {200, 400}
                /\ resp'.status = 200 =>
                      resp'.payload.Article \in {heap[articles[first]],
                                                 heap'[articles[first]]}
                /\ \A j \in WithID(req'.seg) \ {first} :
                      /\ heap'[articles[j]] = heap[articles[j]]
                      /\ IF req'.method = "DELETE"
                         THEN articles'[j - 1] = articles[j]
                         ELSE articles'[j] = articles[j]
                /\ req'.method = "DELETE" =>
                      /\ WithIDNext(req'.seg) # {}
                      /\ articles'[Least(WithIDNext(req'.seg))] =
                           articles[Least(WithID(req'.seg) \ {first})]
      ]_vars

\* Two articles that differ have the id of a GET: the response is the
\* earlier one.
C14_Witness ==
    /\ req.method = "GET"
    /\ req.route = "/rest/v1/{articleID}"
    /\ resp.status = 200
    /\ \E i, j \in WithID(req.seg) :
          /\ i < j
          /\ Stored[i] # Stored[j]
          /\ resp.payload.Article = Stored[i]
          /\ \A k \in WithID(req.seg) : i <= k

(***************************************************************************)
(* C15.  In every state slot 0 of Mode is the current mode state and slot  *)
(* 0 of Heating the current heating state, which no operation changes:     *)
(* they stay "night" and "off".  Only PUT /rest/v1/mode changes the pairs, *)
(* and only their slot 1, to the strings the body holds for the keys the   *)
(* struct is tagged with, whatever they are: the empty string and values   *)
(* outside night/day/auto and on/off/auto are stored as they come.         *)
(* (Slots are counted from 0 as in the code; the pairs are indexed from 1  *)
(* here.)                                                                  *)
(***************************************************************************)
C15_ModeSlots ==
    [][ /\ Mode[1] = <<"n","i","g","h","t">> /\ Mode'[1] = Mode[1]
        /\ Heating[1] = <<"o","f","f">> /\ Heating'[1] = Heating[1]
        /\ Mode'[1] = CurrentStateOfMode'
        /\ Heating'[1] = CurrentStateOfHeating'
        /\ UNCHANGED <<CurrentStateOfMode, CurrentStateOfHeating>>
        /\ Len(Mode') = 2 /\ Len(Heating') = 2
        /\ IF Served("PUT", "/rest/v1/mode")
           THEN IF DecodesAsStrings(req'.body, {"mode", "heting"})
                THEN /\ resp'.status = 200
                     /\ Mode'[2] = SubmittedString(req'.body, "mode", <<>>)
                     /\ Heating'[2] =
                           SubmittedString(req'.body, "heting", <<>>)
                ELSE /\ resp'.status = 400
                     /\ UNCHANGED modeVars
           ELSE UNCHANGED modeVars
      ]_vars

\* A PUT /rest/v1/mode stored an empty mode and a heating value that is
\* none of on, off, auto; slot 0 of both pairs is as at the start.
C15_Witness ==
    /\ req.method = "PUT"
    /\ req.route = "/rest/v1/mode"
    /\ resp.status = 200
    /\ req.body.obj["mode"].t = "string"
    /\ Mode = << <<"n","i","g","h","t">>, <<>> >>
    /\ Heating = << <<"o","f","f">>, <<"h","o","t">> >>

(***************************************************************************)
(* C16 as stated.  Under any interleaving of concurrent requests a DELETE  *)
(* /rest/v1/{id} removes from the list only an article whose id equals     *)
(* the requested id, and two concurrent DELETEs of one id (the ids being   *)
(* pairwise distinct) together remove exactly one article.                 *)
(***************************************************************************)
C16_AsStated ==
    [][ /\ \A g \in Goroutines :
            inflight[g].pc = "append" /\ inflight'[g].pc # "append" =>
              \A p \in Range(articles) \ Range(articles') :
                  heap[p].ID = inflight[g].seg
        /\ ( /\ AllDone'
             /\ \A g, h \in Goroutines :
                   /\ inflight'[g].method = "DELETE"
                   /\ inflight'[g].seg = inflight'[h].seg ) =>
              Len(articles') >= Len(Fixture) - 1
      ]_vars

(***************************************************************************)
(* C17 as stated.  A PUT /rest/v1/{id} that is answered 400 leaves the     *)
(* stored article and the whole list exactly as they were before the       *)
(* request.                                                                *)
(***************************************************************************)
C17_AsStated ==
    [][ (Served("PUT", "/rest/v1/{articleID}") /\ resp'.status = 400) =>
          UNCHANGED articleVars ]_vars

=============================================================================
